---- MODULE Spec2Model ----
(***************************************************************************)
(* CosmicBulkMap, notebooks/example_analysis.ipynb.                        *)
(*                                                                         *)
(* Two code cells carry the program's logic:                               *)
(*   - the Hubble-diagram cell, which defines dipole_mu_physical and       *)
(*     evaluates it on the rows of the toy dataset;                        *)
(*   - the sky-map cell, which synthesizes dipole_map, one value per       *)
(*     HEALPix cell.                                                       *)
(*                                                                         *)
(* Numbers.  The notebook computes in float64.  Here every real is a       *)
(* fixed-point integer:                                                    *)
(*   - angles in milli-degrees (360000 to the turn);                       *)
(*   - sines, cosines and products of them in units of 1/Scale;            *)
(*   - magnitudes (distance moduli, amplitudes) in units of 1/Scale mag;   *)
(*   - redshifts in units of 1/1000.                                       *)
(* Rounding is to nearest, ties away from zero, so it commutes with        *)
(* negation exactly as IEEE rounding does.  Argument reduction is done on  *)
(* milli-degrees and is therefore exact; float64 noise (about 1e-16) is    *)
(* far below the resolution of the model.                                  *)
(***************************************************************************)
EXTENDS Integers, Sequences, FiniteSets

\* Fixed-point unit of trigonometric values and of magnitudes: 1/Scale.
Scale == 10000

\* cosmo.distmod(0): luminosity distance 0, log10(0) = -inf.
NegInf == -1000000000

\* A redshift argument that is no number (Python None).
MissingZ == -999999

\* The value of a name that has not been assigned.
NoValue == -888888888

Abs(x) == IF x < 0 THEN -x ELSE x

Sgn(x) == IF x < 0 THEN -1 ELSE IF x > 0 THEN 1 ELSE 0

\* a / b rounded to nearest, ties away from zero (b > 0).
RoundDiv(a, b) == Sgn(a) * ((2 * Abs(a) + b) \div (2 * b))

\* Fixed-point product a * b of two values in units of 1/Scale.
Mul(a, b) == RoundDiv(a * b, Scale)

\* float addition with an infinite operand: -inf + x = -inf.
Plus(a, b) == IF a = NegInf \/ b = NegInf THEN NegInf ELSE a + b

\* Integer square root (floor), by bisection on [lo, hi].
RECURSIVE IsqrtIn(_, _, _)
IsqrtIn(n, lo, hi) ==
    IF lo >= hi THEN lo
    ELSE LET mid == (lo + hi + 1) \div 2
         IN IF mid * mid <= n THEN IsqrtIn(n, mid, hi) ELSE IsqrtIn(n, lo, mid - 1)

Isqrt(n) == IsqrtIn(n, 0, 20000)

\* Milli-degrees to radians in units of 1/Scale (pi/18 = 0.1745329...).
RadOf(x) == RoundDiv(x * 3927, 22500)

\* sin r for 0 <= r <= pi/4, r in units of 1/Scale: Taylor series to r^7.
SinSeries(r) ==
    LET r2 == Mul(r, r)
        t3 == Scale - r2 \div 42
        t2 == Scale - Mul(r2, t3) \div 20
        t1 == Scale - Mul(r2, t2) \div 6
    IN Mul(r, t1)

\* cos r for 0 <= r <= pi/4: Taylor series to r^6.
CosSeries(r) ==
    LET r2 == Mul(r, r)
        u3 == Scale - r2 \div 30
        u2 == Scale - Mul(r2, u3) \div 12
    IN Scale - Mul(r2, u2) \div 2

\* sin of an angle in the first quadrant, 0..90000 milli-degrees.
SinQ(x) == IF x <= 45000 THEN SinSeries(RadOf(x)) ELSE CosSeries(RadOf(90000 - x))

\* np.sin of an angle given in milli-degrees.
Sin(x) ==
    LET y == x % 360000
    IN IF y <= 90000 THEN SinQ(y)
       ELSE IF y <= 180000 THEN SinQ(180000 - y)
       ELSE IF y <= 270000 THEN -SinQ(y - 180000)
       ELSE -SinQ(360000 - y)

\* np.cos of an angle given in milli-degrees.
Cos(x) == Sin(x + 90000)

\* Radians in units of 1/Scale to milli-degrees.
DegOf(r) == RoundDiv(r * 22500, 3927)

\* arctan u for |u| <= tan(pi/8), u and the result in units of 1/Scale:
\* Taylor series to u^9.
AtanSeries(u) ==
    LET u2 == Mul(u, u)
        q3 == 1429 - Mul(u2, 1111)
        q2 == 2000 - Mul(u2, q3)
        q1 == 3333 - Mul(u2, q2)
    IN Mul(u, Scale - Mul(u2, q1))

\* arctan(y / x) in milli-degrees for 0 <= y <= x, x > 0; above tan(pi/8)
\* through arctan t = pi/4 + arctan((t - 1) / (t + 1)).
AtanUnit(y, x) ==
    LET t == RoundDiv(y * Scale, x)
    IN IF t > 4142
       THEN 45000 + DegOf(AtanSeries(RoundDiv((t - Scale) * Scale, t + Scale)))
       ELSE DegOf(AtanSeries(t))

\* arctan(y / x) in milli-degrees for y > 0, x >= 0.
AtanPos(y, x) == IF y > x THEN 90000 - AtanUnit(x, y) ELSE AtanUnit(y, x)

\* np.arctan2(y, x) for y >= 0, range [0, 180000] milli-degrees;
\* arctan2(0, x) is 0 or 180 exactly, as in IEEE arithmetic.
Arctan2(y, x) ==
    IF y = 0 THEN (IF x < 0 THEN 180000 ELSE 0)
    ELSE IF x < 0 THEN 180000 - AtanPos(y, -x)
    ELSE AtanPos(y, x)

\* np.hypot.
Hypot(a, b) == Isqrt(a * a + b * b)

(***************************************************************************)
(* Collaborators: astropy's FlatLambdaCDM and SkyCoord, healpy.            *)
(***************************************************************************)

\* The redshifts the model is evaluated at, in units of 1/1000: the five of
\* the toy dataset, z = 0, a negative one and a missing one.
Redshifts == {MissingZ, -10, 0, 4, 15, 21, 26, 52}

\* cosmo.distmod(z).value raises when z is no number.
distmod_raises(z) == z = MissingZ

\* cosmo.distmod(z).value for cosmo = FlatLambdaCDM(H0=67.4, Om0=0.315), in
\* units of 1/Scale mag: 5 log10(|d_L(z)| / Mpc) + 25.  It is defined for
\* negative z too (the absolute value), and is -inf at z = 0.
distmod(z) ==
    CASE z = -10 -> 332241
      [] z = 0 -> NegInf
      [] z = 4 -> 312577
      [] z = 15 -> 341459
      [] z = 21 -> 348862
      [] z = 26 -> 353580
      [] z = 52 -> 369038

\* SkyCoord(l=l*u.deg, b=b*u.deg, frame='galactic') raises ValueError when the
\* latitude is outside [-90, 90] degrees; any longitude is accepted.
SkyCoord_raises(l, b) == b < -90000 \/ b > 90000

\* Mutant of angular_separation: np.arctan of the quotient, which loses the
\* quadrant, where astropy has np.arctan2.
angular_separation_arctan(lon1, lat1, lon2, lat2) ==
    LET sdlon == Sin(lon2 - lon1)
        cdlon == Cos(lon2 - lon1)
        slat1 == Sin(lat1)
        slat2 == Sin(lat2)
        clat1 == Cos(lat1)
        clat2 == Cos(lat2)
        num1 == Mul(clat2, sdlon)
        num2 == Mul(clat1, slat2) - Mul(Mul(slat1, clat2), cdlon)
        denominator == Mul(slat1, slat2) + Mul(Mul(clat1, clat2), cdlon)
    IN Arctan2(Hypot(num1, num2), Abs(denominator))

\* SkyCoord(lon1, lat1).separation(SkyCoord(lon2, lat2)), in milli-degrees:
\* astropy's angular_separation (the Vincenty formula).
angular_separation(lon1, lat1, lon2, lat2) ==
    LET sdlon == Sin(lon2 - lon1)
        cdlon == Cos(lon2 - lon1)
        slat1 == Sin(lat1)
        slat2 == Sin(lat2)
        clat1 == Cos(lat1)
        clat2 == Cos(lat2)
        num1 == Mul(clat2, sdlon)
        num2 == Mul(clat1, slat2) - Mul(Mul(slat1, clat2), cdlon)
        denominator == Mul(slat1, slat2) + Mul(Mul(clat1, clat2), cdlon)
    IN Arctan2(Hypot(num1, num2), denominator)

\* hp.nside2npix.
nside2npix(nside) == 12 * nside * nside

\* The colatitude of a cell center from z = cos(colatitude), in milli-degrees:
\* arctan2(sin, z) with sin = sqrt((1 - z)(1 + z)).
Colatitude(z) == Arctan2(Isqrt(Scale * Scale - z * z), z)

\* hp.pix2ang(nside, ipix, lonlat=True) in the RING scheme: the center of
\* cell ipix as <<longitude, latitude>> in milli-degrees.
pix2ang(nside, ipix) ==
    LET npix == nside2npix(nside)
        ncap == 2 * nside * (nside - 1)
    IN IF ipix < ncap
       THEN \* north polar cap
            LET iring == (1 + Isqrt(1 + 2 * ipix)) \div 2
                iphi == ipix + 1 - 2 * iring * (iring - 1)
                z == Scale - RoundDiv(iring * iring * Scale, 3 * nside * nside)
            IN << ((2 * iphi - 1) * 45000) \div iring, 90000 - Colatitude(z) >>
       ELSE IF ipix < npix - ncap
       THEN \* equatorial belt
            LET ip == ipix - ncap
                iring == ip \div (4 * nside) + nside
                iphi == (ip % (4 * nside)) + 1
                z == RoundDiv((2 * nside - iring) * 2 * Scale, 3 * nside)
            IN << IF (iring + nside) % 2 = 1
                  THEN ((iphi - 1) * 90000) \div nside
                  ELSE ((2 * iphi - 1) * 45000) \div nside,
                  90000 - Colatitude(z) >>
       ELSE \* south polar cap
            LET ip == npix - ipix
                iring == (1 + Isqrt(2 * ip - 1)) \div 2
                iphi == 4 * iring + 1 - (ip - 2 * iring * (iring - 1))
                z == RoundDiv(iring * iring * Scale, 3 * nside * nside) - Scale
            IN << ((2 * iphi - 1) * 45000) \div iring, 90000 - Colatitude(z) >>

(***************************************************************************)
(* The notebook's functions.                                               *)
(***************************************************************************)

\* Mutant of ReturnValue: the cosine is forgotten, A multiplies the angle.
ReturnValue_noCos(mu, A, ang) == Plus(mu, Mul(A, RadOf(ang)))

\* Mutant of ReturnValue: the dipole term takes the magnitude of A.
ReturnValue_abs(mu, A, ang) == Plus(mu, Mul(Abs(A), Cos(ang)))

\* Mutant of ReturnValue: np.sin where the code has np.cos.
ReturnValue_sin(mu, A, ang) == Plus(mu, Mul(A, Sin(ang)))

\* dipole_mu_physical, step 3: return mu_cosmo + (A * np.cos(angle)).
ReturnValue(mu, A, ang) == Plus(mu, Mul(A, Cos(ang)))

\* dipole_mu_physical(z, A, l0, b0, l_sn, b_sn): the value it returns when
\* neither collaborator raises.
dipole_mu_physical(z, A, l0, b0, l_sn, b_sn) ==
    ReturnValue(distmod(z), A, angular_separation(l_sn, b_sn, l0, b0))

\* Mutant of CellValue: the map holds the full modulus, mu_cosmo included.
CellValue_withModulus(amp, l_dipole, b_dipole, nside, ipix) ==
    LET center == pix2ang(nside, ipix)
    IN dipole_mu_physical(21, amp, l_dipole, b_dipole, center[1], center[2])

\* Mutant of CellValue: np.cos is given the angle in degrees (.deg for .rad).
CellValue_degrees(amp, l_dipole, b_dipole, nside, ipix) ==
    LET center == pix2ang(nside, ipix)
        ang == angular_separation(l_dipole, b_dipole, center[1], center[2])
    IN Mul(amp, Cos(RoundDiv(ang * 5730, 100)))

\* The sky-map cell, for one cell ipix: its center from pix2ang, the angle
\* dipole_coord.separation(pixel_coords), and amp_dipole * np.cos(angle).
CellValue(amp, l_dipole, b_dipole, nside, ipix) ==
    LET center == pix2ang(nside, ipix)
        ang == angular_separation(l_dipole, b_dipole, center[1], center[2])
    IN Mul(amp, Cos(ang))

(***************************************************************************)
(* Inputs.                                                                 *)
(***************************************************************************)

\* The largest HEALPix resolution parameter NSIDE the map cell is run with.
MaxNside == 2

\* Dipole amplitudes in units of 1/Scale mag; 500 is the notebook's 0.05.
Amplitudes == {-500, 0, 333, 500}

\* Dipole directions <<l, b>>: the notebook's (275, 56), and the center of
\* cell 4 of the NSIDE = 1 map.
DipoleDirections == { <<275000, 56000>>, <<0, 0>> }

\* Target directions <<l, b>>: each dipole direction and its antipode, the
\* first supernova of the toy dataset, and a latitude SkyCoord rejects.
TargetDirections ==
    { <<275000, 56000>>, <<95000, -56000>>, <<0, 0>>, <<180000, 0>>,
      <<237165, 42260>>, <<10000, 95000>> }

\* pantheon_data with coords.galactic: the rows <<z, l, b>> of the toy dataset.
pantheon_data ==
    << [z |-> 21, l |-> 237165, b |-> 42260],
       [z |-> 15, l |-> 223805, b |-> -54633],
       [z |-> 52, l |-> 341153, b |-> -51625],
       [z |-> 4, l |-> 125804, b |-> 54688],
       [z |-> 26, l |-> 174776, b |-> -59915] >>

\* What dipole_mu_physical is evaluated on: the toy dataset, or one row of
\* any redshift and direction.
Datasets ==
    { pantheon_data } \cup
    { << [z |-> zz, l |-> d[1], b |-> d[2]] >> : zz \in Redshifts, d \in TargetDirections }

\* The concurrent evaluators of the map's cells: lane k takes the cells
\* k, k + 2, k + 4, ...
Lanes == {0, 1}

\* The longitudes the two plots are given, in milli-degrees: those of the
\* dipoles dictionary, those of the toy supernovae, and the ends and the
\* middle of [0, 360).
PlotLongitudes ==
    { 264000, 285000, 275000,
      237165, 223805, 341153, 125804, 174776,
      0, 1, 90000, 179999, 180000, 180001, 359999 }

\* Angle.wrap_at(wrap): the angle brought into [wrap - 360, wrap) degrees.
wrap_at(a, wrap) == ((a - (wrap - 360000)) % 360000) + (wrap - 360000)

(***************************************************************************)
(* State.                                                                  *)
(***************************************************************************)
VARIABLES
    run,               \* which code cell runs: "hubble" or "map"
    A_fit, l0_fit, b0_fit,   \* the dipole parameters of the Hubble-diagram cell
    data,              \* the rows dipole_mu_physical is evaluated on
    pc,                \* pc[i]: where the evaluation of row i stands
    mu_cosmo,          \* mu_cosmo[i]: the local mu_cosmo of evaluation i
    angle,             \* angle[i]: the local angle of evaluation i
    mu_model,          \* mu_model[i]: the value evaluation i returned
    raised,            \* raised[i]: the exception evaluation i ended with
    distmod_calls,     \* distmod_calls[i]: calls of cosmo.distmod by evaluation i
    separation_calls,  \* separation_calls[i]: calls of separation by evaluation i
    amp_dipole, l_dipole_deg, b_dipole_deg,  \* the parameters of the map cell
    NSIDE, NPIX,       \* the map's resolution and number of cells
    dipole_map,        \* dipole_map[ipix + 1]: the value of cell ipix
    cursor,            \* cursor[k]: how many cells lane k has evaluated
    lon_deg,           \* the galactic longitude l of a direction the two plots show
    l_rad_sn,          \* its abscissa in the supernova-positions plot (l there)
    l_rad_dipole       \* its abscissa in the dipole-directions plot (l_rad there)

hubble_vars ==
    << A_fit, l0_fit, b0_fit, data, pc, mu_cosmo, angle, mu_model, raised,
       distmod_calls, separation_calls >>

map_vars == << amp_dipole, l_dipole_deg, b_dipole_deg, NSIDE, NPIX, dipole_map, cursor >>

plot_vars == << lon_deg, l_rad_sn, l_rad_dipole >>

vars == << run, hubble_vars, map_vars, plot_vars >>

Rows == 1..Len(data)

\* The Hubble-diagram cell is run: the parameters and the data are set, no
\* evaluation has started; the map cell's names are unassigned.
InitHubble ==
    /\ run = "hubble"
    /\ A_fit \in Amplitudes
    /\ \E d \in DipoleDirections : l0_fit = d[1] /\ b0_fit = d[2]
    /\ data \in Datasets
    /\ pc = [i \in Rows |-> "distmod"]
    /\ mu_cosmo = [i \in Rows |-> NoValue]
    /\ angle = [i \in Rows |-> NoValue]
    /\ mu_model = [i \in Rows |-> NoValue]
    /\ raised = [i \in Rows |-> "none"]
    /\ distmod_calls = [i \in Rows |-> 0]
    /\ separation_calls = [i \in Rows |-> 0]
    /\ amp_dipole = NoValue /\ l_dipole_deg = NoValue /\ b_dipole_deg = NoValue
    /\ NSIDE = NoValue /\ NPIX = NoValue
    /\ dipole_map = << >>
    /\ cursor = [k \in Lanes |-> 0]
    /\ lon_deg = NoValue /\ l_rad_sn = NoValue /\ l_rad_dipole = NoValue

\* The map cell is run: its parameters and NSIDE are set.
InitMap ==
    /\ run = "map"
    /\ A_fit = NoValue /\ l0_fit = NoValue /\ b0_fit = NoValue
    /\ data = << >>
    /\ pc = << >> /\ mu_cosmo = << >> /\ angle = << >> /\ mu_model = << >>
    /\ raised = << >> /\ distmod_calls = << >> /\ separation_calls = << >>
    /\ amp_dipole \in Amplitudes
    /\ \E d \in DipoleDirections : l_dipole_deg = d[1] /\ b_dipole_deg = d[2]
    /\ NSIDE \in 1..MaxNside
    /\ NPIX = NoValue
    /\ dipole_map = << >>
    /\ cursor = [k \in Lanes |-> 0]
    /\ lon_deg = NoValue /\ l_rad_sn = NoValue /\ l_rad_dipole = NoValue

\* The two Mollweide plot cells are run on a direction of longitude lon_deg;
\* neither has placed it yet.
InitPlot ==
    /\ run = "plot"
    /\ A_fit = NoValue /\ l0_fit = NoValue /\ b0_fit = NoValue
    /\ data = << >>
    /\ pc = << >> /\ mu_cosmo = << >> /\ angle = << >> /\ mu_model = << >>
    /\ raised = << >> /\ distmod_calls = << >> /\ separation_calls = << >>
    /\ amp_dipole = NoValue /\ l_dipole_deg = NoValue /\ b_dipole_deg = NoValue
    /\ NSIDE = NoValue /\ NPIX = NoValue
    /\ dipole_map = << >>
    /\ cursor = [k \in Lanes |-> 0]
    /\ lon_deg \in PlotLongitudes
    /\ l_rad_sn = NoValue /\ l_rad_dipole = NoValue

Init == InitHubble \/ InitMap \/ InitPlot

(***************************************************************************)
(* dipole_mu_physical, one evaluation per row i.                           *)
(***************************************************************************)

\* Mutant of CallDistmod: a negative redshift is rejected with InvalidInput
\* before the background model is called.
CallDistmod_validating(i) ==
    /\ run = "hubble"
    /\ pc[i] = "distmod"
    /\ IF data[i].z # MissingZ /\ data[i].z < 0
       THEN /\ raised' = [raised EXCEPT ![i] = "InvalidInput"]
            /\ pc' = [pc EXCEPT ![i] = "raised"]
            /\ UNCHANGED << mu_cosmo, distmod_calls >>
       ELSE /\ distmod_calls' = [distmod_calls EXCEPT ![i] = @ + 1]
            /\ IF distmod_raises(data[i].z)
               THEN /\ raised' = [raised EXCEPT ![i] = "TypeError"]
                    /\ pc' = [pc EXCEPT ![i] = "raised"]
                    /\ UNCHANGED mu_cosmo
               ELSE /\ mu_cosmo' = [mu_cosmo EXCEPT ![i] = distmod(data[i].z)]
                    /\ pc' = [pc EXCEPT ![i] = "separation"]
                    /\ UNCHANGED raised
    /\ UNCHANGED << plot_vars, run, A_fit, l0_fit, b0_fit, data, angle, mu_model,
                    separation_calls, map_vars >>

\* Step 1: mu_cosmo = cosmo.distmod(z).value.  Nothing precedes the call; an
\* exception of the background model leaves the function.
CallDistmod(i) ==
    /\ run = "hubble"
    /\ pc[i] = "distmod"
    /\ distmod_calls' = [distmod_calls EXCEPT ![i] = @ + 1]
    /\ IF distmod_raises(data[i].z)
       THEN /\ raised' = [raised EXCEPT ![i] = "TypeError"]
            /\ pc' = [pc EXCEPT ![i] = "raised"]
            /\ UNCHANGED mu_cosmo
       ELSE /\ mu_cosmo' = [mu_cosmo EXCEPT ![i] = distmod(data[i].z)]
            /\ pc' = [pc EXCEPT ![i] = "separation"]
            /\ UNCHANGED raised
    /\ UNCHANGED << plot_vars, run, A_fit, l0_fit, b0_fit, data, angle, mu_model,
                    separation_calls, map_vars >>

\* Mutant of CallSeparation: the geometry collaborator's exception is caught
\* and the background modulus is returned in place of the full result.
CallSeparation_swallow(i) ==
    /\ run = "hubble"
    /\ pc[i] = "separation"
    /\ IF SkyCoord_raises(l0_fit, b0_fit) \/ SkyCoord_raises(data[i].l, data[i].b)
       THEN /\ mu_model' = [mu_model EXCEPT ![i] = mu_cosmo[i]]
            /\ pc' = [pc EXCEPT ![i] = "done"]
            /\ UNCHANGED << angle, separation_calls >>
       ELSE /\ angle' = [angle EXCEPT ![i] =
                            angular_separation(data[i].l, data[i].b, l0_fit, b0_fit)]
            /\ separation_calls' = [separation_calls EXCEPT ![i] = @ + 1]
            /\ pc' = [pc EXCEPT ![i] = "return"]
            /\ UNCHANGED mu_model
    /\ UNCHANGED << plot_vars, run, A_fit, l0_fit, b0_fit, data, mu_cosmo, raised,
                    distmod_calls, map_vars >>

\* Step 2: the two SkyCoord objects and angle = sn_coords.separation(dipole_coord).rad.
\* An exception of the geometry collaborator leaves the function.
CallSeparation(i) ==
    /\ run = "hubble"
    /\ pc[i] = "separation"
    /\ IF SkyCoord_raises(l0_fit, b0_fit) \/ SkyCoord_raises(data[i].l, data[i].b)
       THEN /\ raised' = [raised EXCEPT ![i] = "ValueError"]
            /\ pc' = [pc EXCEPT ![i] = "raised"]
            /\ UNCHANGED << angle, separation_calls >>
       ELSE /\ angle' = [angle EXCEPT ![i] =
                            angular_separation(data[i].l, data[i].b, l0_fit, b0_fit)]
            /\ separation_calls' = [separation_calls EXCEPT ![i] = @ + 1]
            /\ pc' = [pc EXCEPT ![i] = "return"]
            /\ UNCHANGED raised
    /\ UNCHANGED << plot_vars, run, A_fit, l0_fit, b0_fit, data, mu_cosmo, mu_model,
                    distmod_calls, map_vars >>

\* Mutant of Return: the amplitude decays with redshift, A / z.
Return_decayingAmplitude(i) ==
    /\ run = "hubble"
    /\ pc[i] = "return"
    /\ mu_model' = [mu_model EXCEPT ![i] =
                       IF data[i].z > 0
                       THEN Plus(mu_cosmo[i],
                                 RoundDiv(Mul(A_fit, Cos(angle[i])) * 1000, data[i].z))
                       ELSE ReturnValue(mu_cosmo[i], A_fit, angle[i])]
    /\ pc' = [pc EXCEPT ![i] = "done"]
    /\ UNCHANGED << plot_vars, run, A_fit, l0_fit, b0_fit, data, mu_cosmo, angle, raised,
                    distmod_calls, separation_calls, map_vars >>

\* Mutant of Return: angle is a name shared by the evaluations, so step 3
\* reads the angle of whichever evaluation assigned it.
Return_sharedAngle(i) ==
    /\ run = "hubble"
    /\ pc[i] = "return"
    /\ \E j \in Rows :
           /\ angle[j] # NoValue
           /\ mu_model' = [mu_model EXCEPT ![i] = ReturnValue(mu_cosmo[i], A_fit, angle[j])]
    /\ pc' = [pc EXCEPT ![i] = "done"]
    /\ UNCHANGED << plot_vars, run, A_fit, l0_fit, b0_fit, data, mu_cosmo, angle, raised,
                    distmod_calls, separation_calls, map_vars >>

\* Step 3: return mu_cosmo + (A * np.cos(angle)).
Return(i) ==
    /\ run = "hubble"
    /\ pc[i] = "return"
    /\ mu_model' = [mu_model EXCEPT ![i] = ReturnValue(mu_cosmo[i], A_fit, angle[i])]
    /\ pc' = [pc EXCEPT ![i] = "done"]
    /\ UNCHANGED << plot_vars, run, A_fit, l0_fit, b0_fit, data, mu_cosmo, angle, raised,
                    distmod_calls, separation_calls, map_vars >>

(***************************************************************************)
(* The sky-map cell.                                                       *)
(***************************************************************************)

\* NPIX = hp.nside2npix(NSIDE); the map has NPIX cells, none evaluated yet.
HealpySetup ==
    /\ run = "map"
    /\ NPIX = NoValue
    /\ NPIX' = nside2npix(NSIDE)
    /\ dipole_map' = [p \in 1..nside2npix(NSIDE) |-> NoValue]
    /\ UNCHANGED << plot_vars, run, hubble_vars, amp_dipole, l_dipole_deg, b_dipole_deg, NSIDE, cursor >>

\* The cell lane k evaluates next.
NextCell(k) == k + Cardinality(Lanes) * cursor[k]

\* dipole_map[ipix] = amp_dipole * np.cos(angle[ipix]) for lane k's next cell.
SynthCell(k) ==
    /\ run = "map"
    /\ NPIX # NoValue
    /\ NextCell(k) < NPIX
    /\ dipole_map' = [dipole_map EXCEPT ![NextCell(k) + 1] =
                         CellValue(amp_dipole, l_dipole_deg, b_dipole_deg, NSIDE, NextCell(k))]
    /\ cursor' = [cursor EXCEPT ![k] = @ + 1]
    /\ UNCHANGED << plot_vars, run, hubble_vars, amp_dipole, l_dipole_deg, b_dipole_deg, NSIDE, NPIX >>

(***************************************************************************)
(* The two Mollweide scatter plots.                                        *)
(***************************************************************************)

\* Supernova positions: l = coords.galactic.l.wrap_at(180*u.deg).radian.
PlotSupernova ==
    /\ run = "plot"
    /\ l_rad_sn = NoValue
    /\ l_rad_sn' = RadOf(wrap_at(lon_deg, 180000))
    /\ UNCHANGED << run, hubble_vars, map_vars, lon_deg, l_rad_dipole >>

\* Dipole directions: l_rad = np.deg2rad(d["l"] - 180).
PlotDipole ==
    /\ run = "plot"
    /\ l_rad_dipole = NoValue
    /\ l_rad_dipole' = RadOf(lon_deg - 180000)
    /\ UNCHANGED << run, hubble_vars, map_vars, lon_deg, l_rad_sn >>

Next ==
    \/ PlotSupernova
    \/ PlotDipole
    \/ \E i \in Rows : CallDistmod(i)
    \/ \E i \in Rows : CallSeparation(i)
    \/ \E i \in Rows : Return(i)
    \/ HealpySetup
    \/ \E k \in Lanes : SynthCell(k)

Spec == Init /\ [][Next]_vars

(***************************************************************************)
(* Properties.                                                             *)
(***************************************************************************)

\* The separation of row i's direction from the dipole direction.
Theta(i) == angular_separation(data[i].l, data[i].b, l0_fit, b0_fit)

\* Row i's redshift is a number, and negative.
NegativeZ(i) == data[i].z # MissingZ /\ data[i].z < 0

\* A collaborator of evaluation i fails.
GeometryFails(i) == SkyCoord_raises(l0_fit, b0_fit) \/ SkyCoord_raises(data[i].l, data[i].b)

\* C1: whatever the redshift, the amplitude, the dipole direction and the
\* target direction, the value dipole_mu_physical returns is
\* mu_cosmo(z) + A * cos(theta), theta the separation of the target direction
\* from the dipole direction, and nothing else.
C1_ModulusIsBackgroundPlusDipole ==
    \A i \in Rows :
        pc[i] = "done" =>
            mu_model[i] = Plus(distmod(data[i].z), Mul(A_fit, Cos(Theta(i))))

\* A finished evaluation whose dipole term is neither zero nor +-A.
C1_Witness ==
    \E i \in Rows :
        /\ pc[i] = "done"
        /\ data[i].z = 21
        /\ A_fit = 333
        /\ angle[i] \notin {0, 180000}
        /\ mu_model[i] # mu_cosmo[i]
        /\ mu_model[i] = 348862 + Mul(333, Cos(angle[i]))

\* C2 as stated: an evaluation with a negative redshift fails with
\* InvalidInput and never invokes the background model.
C2_NegativeRedshiftRejected ==
    \A i \in Rows :
        (NegativeZ(i) /\ pc[i] # "distmod") =>
            (raised[i] = "InvalidInput" /\ distmod_calls[i] = 0)

\* C2 as amended: an evaluation with a negative redshift is not validated:
\* its first step invokes the background model with that z, it never fails
\* with InvalidInput, and it ends like any other evaluation, with
\* mu_cosmo(z) + A * cos(theta) or with the geometry collaborator's failure.
C2_NegativeRedshiftReachesBackground ==
    \A i \in Rows :
        (NegativeZ(i) /\ pc[i] # "distmod") =>
            /\ distmod_calls[i] = 1
            /\ mu_cosmo[i] = distmod(data[i].z)
            /\ raised[i] # "InvalidInput"
            /\ pc[i] = "raised" => (raised[i] = "ValueError" /\ GeometryFails(i))
            /\ pc[i] = "done" => mu_model[i] = Plus(mu_cosmo[i], Mul(A_fit, Cos(Theta(i))))

\* An evaluation at z = -0.010 that returned a modulus.
C2_Witness ==
    \E i \in Rows :
        /\ data[i].z = -10
        /\ pc[i] = "done"
        /\ distmod_calls[i] = 1
        /\ mu_model[i] # NoValue

\* C3: a failure of the background model or of the geometry collaborator
\* ends the evaluation with that very failure: no other error takes its
\* place, no collaborator is called twice, and no modulus, partial or
\* substitute, is returned; an evaluation ends with a full result only when
\* no collaborator failed.
C3_CollaboratorFailurePropagates ==
    \A i \in Rows :
        /\ distmod_calls[i] <= 1 /\ separation_calls[i] <= 1
        /\ (distmod_raises(data[i].z) /\ pc[i] # "distmod") =>
               /\ pc[i] = "raised" /\ raised[i] = "TypeError"
               /\ mu_model[i] = NoValue /\ separation_calls[i] = 0
        /\ (~distmod_raises(data[i].z) /\ GeometryFails(i) /\ pc[i] \notin {"distmod", "separation"}) =>
               /\ pc[i] = "raised" /\ raised[i] = "ValueError"
               /\ mu_model[i] = NoValue /\ separation_calls[i] = 0
        /\ pc[i] = "raised" => (distmod_raises(data[i].z) \/ GeometryFails(i))
        /\ pc[i] = "done" =>
               /\ raised[i] = "none"
               /\ mu_cosmo[i] # NoValue /\ angle[i] # NoValue /\ mu_model[i] # NoValue

\* The geometry collaborator failed after the background model had answered.
C3_Witness ==
    \E i \in Rows :
        /\ pc[i] = "raised"
        /\ raised[i] = "ValueError"
        /\ mu_cosmo[i] # NoValue
        /\ mu_model[i] = NoValue

\* Every lane has evaluated all its cells.
MapComplete == NPIX # NoValue /\ \A k \in Lanes : NextCell(k) >= NPIX

\* The direction opposite to <<l, b>>.
Antipode(l, b) == << (l + 180000) % 360000, -b >>

\* The sum of the values of a sequence.
RECURSIVE SumSeq(_)
SumSeq(q) == IF q = << >> THEN 0 ELSE Head(q) + SumSeq(Tail(q))

\* C4: the synthesized map has one value per cell, NPIX = nside2npix(NSIDE)
\* of them in cell-index order, and the value of cell i is
\* amplitude * cos(separation(dipole direction, center of cell i)), without
\* any mu_cosmo term, for every cell.
C4_MapIsDeviationPerCell ==
    (run = "map" /\ NPIX # NoValue) =>
        /\ NPIX = 12 * NSIDE * NSIDE
        /\ Len(dipole_map) = NPIX
        /\ MapComplete =>
               \A ipix \in 0..(NPIX - 1) :
                   LET center == pix2ang(NSIDE, ipix)
                   IN dipole_map[ipix + 1] =
                          Mul(amp_dipole,
                              Cos(angular_separation(l_dipole_deg, b_dipole_deg,
                                                     center[1], center[2])))

\* The complete NSIDE = 2 map of the notebook's dipole, with cells of both signs.
C4_Witness ==
    /\ MapComplete
    /\ NSIDE = 2 /\ Len(dipole_map) = 48
    /\ amp_dipole = 500 /\ l_dipole_deg = 275000 /\ b_dipole_deg = 56000
    /\ \E p, q \in 1..48 : dipole_map[p] > 0 /\ dipole_map[q] < 0 /\ dipole_map[q] # NoValue

\* C5: whatever the amplitude and the dipole direction, the average of the
\* map over the sphere is zero (HEALPix cells have equal areas, so the
\* area-weighted average is the sum of the cells over NPIX).
C5_MapAveragesToZero ==
    MapComplete => SumSeq(dipole_map) = 0

\* A complete map, not identically zero, of the notebook's dipole.
C5_Witness ==
    /\ MapComplete
    /\ amp_dipole = 333 /\ l_dipole_deg = 275000 /\ b_dipole_deg = 56000
    /\ \E p \in 1..NPIX : dipole_map[p] > 0

\* C6: when the target direction is the dipole direction, the separation is
\* 0 and the value returned is mu_cosmo(z) + A, for every z and every A.
C6_AlignedGivesPlusA ==
    \A i \in Rows :
        (pc[i] = "done" /\ data[i].l = l0_fit /\ data[i].b = b0_fit) =>
            /\ angle[i] = 0
            /\ mu_model[i] = Plus(distmod(data[i].z), A_fit)

\* The concrete scenario: A = 0.05, dipole and target direction (275, 56).
C6_Witness ==
    \E i \in Rows :
        /\ pc[i] = "done"
        /\ A_fit = 500 /\ l0_fit = 275000 /\ b0_fit = 56000
        /\ data[i] = [z |-> 21, l |-> 275000, b |-> 56000]
        /\ mu_model[i] = 348862 + 500

\* C7: when the target direction, or the center of a map cell, is the
\* antipode of the dipole direction, the separation is 180 degrees and the
\* dipole term is -A: the function returns mu_cosmo(z) - A, the cell holds
\* -amplitude.
C7_AntipodeGivesMinusA ==
    /\ \A i \in Rows :
           (pc[i] = "done" /\ << data[i].l, data[i].b >> = Antipode(l0_fit, b0_fit)) =>
               /\ angle[i] = 180000
               /\ mu_model[i] = Plus(distmod(data[i].z), -A_fit)
    /\ MapComplete =>
           \A ipix \in 0..(NPIX - 1) :
               pix2ang(NSIDE, ipix) = Antipode(l_dipole_deg, b_dipole_deg) =>
                   dipole_map[ipix + 1] = -amp_dipole

\* The complete NSIDE = 1 map of a dipole along (0, 0): cell 6, centered at
\* (180, 0), holds -amplitude.
C7_Witness ==
    /\ MapComplete
    /\ NSIDE = 1 /\ amp_dipole = 500 /\ l_dipole_deg = 0 /\ b_dipole_deg = 0
    /\ pix2ang(1, 6) = Antipode(0, 0)
    /\ dipole_map[7] = -500

BackgroundIncreasing ==
    \A z1, z2 \in Redshifts \ {MissingZ} :
        (0 <= z1 /\ z1 < z2) => distmod(z1) < distmod(z2)

\* C9: the background model being strictly increasing, with the amplitude
\* and the two directions fixed the value returned is strictly increasing
\* in z over the valid redshifts.
C9_IncreasingInZ ==
    BackgroundIncreasing =>
        \A i \in Rows :
            (pc[i] = "done" /\ data[i].z >= 0) =>
                \A z2 \in Redshifts \ {MissingZ} :
                    /\ data[i].z < z2 =>
                           mu_model[i] < dipole_mu_physical(z2, A_fit, l0_fit, b0_fit,
                                                            data[i].l, data[i].b)
                    /\ (0 <= z2 /\ z2 < data[i].z) =>
                           dipole_mu_physical(z2, A_fit, l0_fit, b0_fit,
                                              data[i].l, data[i].b) < mu_model[i]

\* A finished evaluation at z = 0.004 facing the dipole, below the one at 0.015.
C9_Witness ==
    \E i \in Rows :
        /\ pc[i] = "done"
        /\ BackgroundIncreasing
        /\ data[i] = [z |-> 4, l |-> 275000, b |-> 56000]
        /\ A_fit = 500 /\ l0_fit = 275000 /\ b0_fit = 56000
        /\ mu_model[i] < dipole_mu_physical(15, A_fit, l0_fit, b0_fit, 275000, 56000)

\* C10: evaluations are independent.  A step of one evaluation writes
\* neither the parameters, the data nor the resolution, nor anything of
\* another evaluation; a value once produced is never changed; and the value
\* an evaluation produces is the one its own inputs determine, whatever the
\* order and interleaving of the evaluations.
C10_EvaluationsIndependent ==
    [][ /\ << run, A_fit, l0_fit, b0_fit, data >>' = << run, A_fit, l0_fit, b0_fit, data >>
        /\ << amp_dipole, l_dipole_deg, b_dipole_deg, NSIDE >>'
               = << amp_dipole, l_dipole_deg, b_dipole_deg, NSIDE >>
        /\ \A i \in Rows :
               /\ pc[i] = "done" => (pc'[i] = "done" /\ mu_model'[i] = mu_model[i])
               /\ (pc[i] # "done" /\ pc'[i] = "done") =>
                      mu_model'[i] = dipole_mu_physical(data[i].z, A_fit, l0_fit, b0_fit,
                                                        data[i].l, data[i].b)
               /\ pc'[i] # pc[i] =>
                      \A j \in Rows \ {i} :
                          << pc[j], mu_cosmo[j], angle[j], mu_model[j], raised[j] >>'
                              = << pc[j], mu_cosmo[j], angle[j], mu_model[j], raised[j] >>
        /\ NPIX # NoValue =>
               /\ NPIX' = NPIX
               /\ \A p \in 1..NPIX :
                      /\ dipole_map[p] # NoValue => dipole_map'[p] = dipole_map[p]
                      /\ (dipole_map[p] = NoValue /\ dipole_map'[p] # NoValue) =>
                             dipole_map'[p] = CellValue(amp_dipole, l_dipole_deg,
                                                        b_dipole_deg, NSIDE, p - 1)
      ]_vars

\* Out of order and interleaved: a later row of the toy dataset is finished
\* while an earlier one is between its steps.
C10_Witness ==
    /\ Len(data) = 5
    /\ pc[5] = "done" /\ mu_model[5] # NoValue
    /\ pc[2] = "separation"
    /\ pc[1] = "return"
    /\ pc[3] = "distmod"

\* C11: the two Mollweide plots, which carry the same longitude tick labels,
\* place a direction of galactic longitude l at the same abscissa: l wrapped
\* at 180 degrees in the supernova plot, l - 180 degrees in the dipole plot.
C11_PlotsAgreeOnLongitude ==
    (run = "plot" /\ l_rad_sn # NoValue /\ l_rad_dipole # NoValue) =>
        l_rad_sn = l_rad_dipole

====
